---- MODULE Spec2Model ----
(***************************************************************************)
(* The session store of the invoice-analysis service                       *)
(* (app/core/session_manager.py): a dictionary of SessionData guarded by   *)
(* one re-entrant lock, with a sliding time-to-live that is checked when a *)
(* session is looked up and swept by create_session and                     *)
(* get_active_sessions_count.                                              *)
(*                                                                         *)
(* Several request threads call the store.  A call is split exactly at the *)
(* places where it reads the wall clock or waits for the lock, because the *)
(* clock may advance (Tick) and other threads may run at those places:     *)
(*   create_session      reads uuid4 and the clock before it takes the     *)
(*                       lock, inserts under the lock, and the sweep reads *)
(*                       the clock again;                                  *)
(*   get_session         looks the entry up, reads the clock for the       *)
(*                       expiry check and reads it again for the update;   *)
(*   delete_session, get_active_sessions_count, cleanup_all_sessions       *)
(*                       read the clock at most once inside the lock.      *)
(*                                                                         *)
(* The second part is the request handler analyze_invoices                 *)
(* (app/routers/analyze.py) with the workflow that create_agent builds     *)
(* (app/core/rag_pipeline.py): get_session, then the steps retrieve,       *)
(* grade_documents, generate, route_to_table, format_table,                *)
(* route_to_graph and format_graph along the edges of the graph, then the  *)
(* response.  A step is one action that draws what the retriever or the    *)
(* model returns, or that the call raises; an exception that a step does   *)
(* not catch ends agent.invoke and is answered by the handler.             *)
(*                                                                         *)
(* Specifications: Spec is the store on its own; AskSpec is the service    *)
(* after one upload, with clients asking questions while time passes;      *)
(* ServeSpec adds the calls that remove sessions while one client asks;    *)
(* PairSpec is two clients asking at once about two sessions, and          *)
(* PairFairSpec is PairSpec when every external call returns or raises in  *)
(* the end.                                                                *)
(***************************************************************************)
EXTENDS Integers, FiniteSets, Sequences, TLC

\* Bounds of the model.
NumThreads == 2
MaxIds == 2
MaxTime == 2
MaxTimeout == 1
NumClients == 1

Threads == 1..NumThreads
IDs == 1..MaxIds
\* The threads that serve POST /analyze requests.
Clients == 1..NumClients

VARIABLES
    sessions,         \* self._sessions: session id -> SessionData
    lock,             \* self._lock: the set of threads holding it (empty or one)
    session_timeout,  \* self.session_timeout
    now,              \* the wall clock read by time.time()
    issued,           \* the identifiers uuid4 has handed out so far
    frame,            \* per thread: the call it is in, with that call's locals
    last,             \* the call completed by the latest step, with its result
    hist,             \* history: per issued id, its status and last touch
    nswept,           \* history: number of entries removed because they had expired
    ncreate,          \* history: number of create_session calls started
    ndeleted,         \* history: number of delete_session calls that returned True
    ask               \* per client: its POST /analyze request, the workflow
                      \* state of its agent.invoke and the steps it ran

vars == <<sessions, lock, session_timeout, now, issued, frame, last, hist,
          nswept, ncreate, ndeleted>>

----------------------------------------------------------------------------
\* Data and pure helpers

\* The vector store and the agent of a session are the ones its upload built;
\* they are named by the session.
SessionData(id, t) ==
    [session_id |-> id, vector_store |-> id, agent |-> id, created_at |-> t,
     last_accessed |-> t]

EmptySessions == [k \in {} |-> SessionData(k, 0)]

Idle == [pc |-> "idle"]

NoCall == [op |-> "none"]

\* self._sessions[session_id] = session_data
Insert(S, id, sd) ==
    [k \in DOMAIN S \cup {id} |-> IF k = id THEN sd ELSE S[k]]

\* del self._sessions[session_id], for each id of ids
Remove(S, ids) ==
    [k \in DOMAIN S \ ids |-> S[k]]

\* Mutant of Touch: the access time is not refreshed.
Touch_NotRefreshed(S, id, t) ==
    S

\* session_data.last_accessed = time.time()
Touch(S, id, t) ==
    [k \in DOMAIN S |-> IF k = id THEN [S[k] EXCEPT !.last_accessed = t] ELSE S[k]]

\* Mutant of IsExpired: the boundary now - last_accessed = timeout counts as
\* expired.
IsExpired_AtBoundary(sd, t) ==
    t - sd.last_accessed >= session_timeout

\* Mutant of IsExpired: the lifetime is counted from creation, not from the
\* last access.
IsExpired_FromCreation(sd, t) ==
    t - sd.created_at > session_timeout

\* the expiry test of get_session and of the sweep
IsExpired(sd, t) ==
    t - sd.last_accessed > session_timeout

\* _cleanup_expired_sessions, with current_time = t
cleanup_expired_sessions(S, t) ==
    Remove(S, {k \in DOMAIN S : IsExpired(S[k], t)})

\* Mutant of uuid4: the identifier is derived from the size of the table.
uuid4_FromTableSize ==
    {Cardinality(DOMAIN sessions) + 1}

\* uuid.uuid4(): a value never handed out before.  Identifiers are opaque and
\* only compared for equality, so which unused value is drawn makes no
\* difference: the model draws the least one.
uuid4 ==
    {i \in IDs \ issued : \A j \in IDs \ issued : i <= j}

\* the lock can be taken: nobody holds it
LockFree ==
    lock = {}

\* some request thread is free to make a call
SomeIdle ==
    \E t \in Threads : frame[t] = Idle

\* history bookkeeping: counts the entries a step removed as expired
SweptBy(S, S2) ==
    nswept + Cardinality(DOMAIN S \ DOMAIN S2)

\* history bookkeeping: a removed id keeps only how it was removed
Gone(ids, how) ==
    [k \in DOMAIN hist |-> IF k \in ids THEN [st |-> how] ELSE hist[k]]

----------------------------------------------------------------------------
\* The workflow built by create_agent (app/core/rag_pipeline.py) and the
\* request handler analyze_invoices (app/routers/analyze.py): data.
\*
\* Texts are tokens.  "q" is the question of the request, "a1" the text the
\* model returns in generate, "docs" the list the retriever returns.

Absent == "absent"

None == "None"

Raise == "raise"

END == "END"

\* class State(TypedDict), as agent.invoke({"question": ...}) starts it: the
\* other keys are not in the dict until a step returns them.
InitialState ==
    [question |-> "q", documents |-> Absent, answer |-> Absent,
     table |-> Absent, decision |-> Absent, table_decision |-> Absent,
     graph_decision |-> Absent, graph_fig |-> Absent]

\* What the model may answer to a yes/no prompt.
Verdicts == {"Yes", "yes, partly", "No", "Unclear"}

\* "yes" in response.lower()
ContainsYes(response) == response \in {"Yes", "yes, partly"}

\* What the model may answer to the table prompt: a JSON list of one or more
\* objects, the empty JSON list, JSON of another shape, or text that is not
\* JSON.
TableContents == {"[{..}]", "[]", "{..}", "not json"}

\* What the model may answer to the graph prompt: an object of a supported
\* type, an object of an unsupported type, JSON that is not an object, or text
\* that is not JSON.
GraphContents == {"{type: bar}", "{type: other}", "[..]", "not json"}

\* Mutant of ParseTable: JSON of another shape is wrapped in a frame as well.
ParseTable_AnyJson(content) ==
    CASE content = "[{..}]" -> "df_rows"
      [] content = "[]" -> "df_empty"
      [] content = "{..}" -> "df_rows"
      [] OTHER -> None

\* format_table, lines 200-208: json.loads, then a DataFrame if the value is a
\* list whose items are all dicts (the empty list included), else None; any
\* exception gives None.
ParseTable(content) ==
    CASE content = "[{..}]" -> "df_rows"
      [] content = "[]" -> "df_empty"
      [] OTHER -> None

\* format_graph, lines 225-252: json.loads and json_data.get("type"); a figure
\* is drawn for bar, line and pie and left blank for another type; any
\* exception gives None.
ParseGraph(content) ==
    CASE content = "{type: bar}" -> "fig_bar"
      [] content = "{type: other}" -> "fig_blank"
      [] OTHER -> None

\* Mutant of TableInput: the table prompt is filled with the question.
TableInput_Question(st) == st.question

\* format_table, lines 197-199: the chain is invoked with {"answer": answer}.
TableInput(st) == st.answer

\* format_graph, lines 221-224: {"question": question, "answer": answer}.
GraphInput(st) == <<st.question, st.answer>>

\* Mutant of Edge: format_table is wired to END.
Edge_TableEndsRun(node, st) ==
    CASE node = "retrieve" -> "grade_documents"
      [] node = "grade_documents" ->
            IF st.decision = "generate" THEN "generate" ELSE END
      [] node = "generate" -> "route_to_table"
      [] node = "route_to_table" ->
            IF st.table_decision = "format_table" THEN "format_table"
            ELSE "route_to_graph"
      [] node = "format_table" -> END
      [] node = "route_to_graph" ->
            IF st.graph_decision = "format_graph" THEN "format_graph" ELSE END
      [] node = "format_graph" -> END

\* Mutant of Edge: format_graph is wired back to route_to_graph.
Edge_GraphLoops(node, st) ==
    CASE node = "retrieve" -> "grade_documents"
      [] node = "grade_documents" ->
            IF st.decision = "generate" THEN "generate" ELSE END
      [] node = "generate" -> "route_to_table"
      [] node = "route_to_table" ->
            IF st.table_decision = "format_table" THEN "format_table"
            ELSE "route_to_graph"
      [] node = "format_table" -> "route_to_graph"
      [] node = "route_to_graph" ->
            IF st.graph_decision = "format_graph" THEN "format_graph" ELSE END
      [] node = "format_graph" -> "route_to_graph"

\* Mutant of Edge: grade_documents is wired to generate unconditionally.
Edge_GradeIgnored(node, st) ==
    CASE node = "retrieve" -> "grade_documents"
      [] node = "grade_documents" -> "generate"
      [] node = "generate" -> "route_to_table"
      [] node = "route_to_table" ->
            IF st.table_decision = "format_table" THEN "format_table"
            ELSE "route_to_graph"
      [] node = "format_table" -> "route_to_graph"
      [] node = "route_to_graph" ->
            IF st.graph_decision = "format_graph" THEN "format_graph" ELSE END
      [] node = "format_graph" -> END

\* create_agent, lines 268-286: the edges of the graph.  A conditional edge
\* reads the decision with state.get(key, default); every decision is in the
\* state when its edge is taken.
Edge(node, st) ==
    CASE node = "retrieve" -> "grade_documents"
      [] node = "grade_documents" ->
            IF st.decision = "generate" THEN "generate" ELSE END
      [] node = "generate" -> "route_to_table"
      [] node = "route_to_table" ->
            IF st.table_decision = "format_table" THEN "format_table"
            ELSE "route_to_graph"
      [] node = "format_table" -> "route_to_graph"
      [] node = "route_to_graph" ->
            IF st.graph_decision = "format_graph" THEN "format_graph" ELSE END
      [] node = "format_graph" -> END

\* The response of a request that has not been answered.
NoResponse ==
    [status |-> "none", answer |-> Absent, table |-> Absent, graph |-> Absent,
     detail |-> Absent]

\* analyze.py lines 18-21.
NotFound ==
    [status |-> "404", answer |-> Absent, table |-> Absent, graph |-> Absent,
     detail |-> "Session not found or expired"]

\* analyze.py lines 45-49.
InternalError ==
    [status |-> "500", answer |-> Absent, table |-> Absent, graph |-> Absent,
     detail |-> "Error during analysis: ..."]

\* A client with no request: the record of a request holds the session id
\* asked for, the step about to run, the State of the invocation, the steps
\* run so far, what the two formatting prompts were filled with and what the
\* model returned for them, and the response; agent is the agent of the
\* SessionData that get_session returned, or 0.
NoRequest ==
    [pc |-> "idle", session_id |-> 0, agent |-> 0, node |-> "retrieve",
     state |-> InitialState, path |-> <<>>, table_input |-> Absent,
     table_reply |-> Absent, graph_input |-> Absent, graph_reply |-> Absent,
     resp |-> NoResponse]

\* Mutant of Abort: the failure is answered with the default text.
Abort_DefaultAnswer(a, n) ==
    [a EXCEPT !.pc = "done", !.path = Append(@, n),
              !.resp = [status |-> "200", answer |-> "default", table |-> None,
                        graph |-> None, detail |-> Absent]]

\* Step n raises: agent.invoke raises, and analyze.py line 45 turns the
\* exception into the 500 response.
Abort(a, n) ==
    [a EXCEPT !.pc = "done", !.path = Append(@, n), !.resp = InternalError]

\* Step n returns: its keys are merged into the State and the edge is taken.
Advance(a, n, st) ==
    [a EXCEPT !.path = Append(@, n), !.state = st, !.node = Edge(n, st)]

\* analyze.py line 26: result.get("answer", "No relevant information found.")
Answer(result) ==
    IF result.answer = Absent THEN "No relevant information found."
    ELSE result.answer

\* analyze.py lines 30-32: table_df.to_dict('records') of a DataFrame.
TableData(result) ==
    CASE result.table = "df_rows" -> "[{..}]"
      [] result.table = "df_empty" -> "[]"
      [] OTHER -> None

----------------------------------------------------------------------------
Init ==
    /\ sessions = EmptySessions
    /\ lock = {}
    /\ session_timeout \in 0..MaxTimeout
    /\ now = 0
    /\ issued = {}
    /\ frame = [t \in Threads |-> Idle]
    /\ last = NoCall
    /\ hist = [k \in {} |-> [st |-> "pending", touched |-> 0]]
    /\ nswept = 0
    /\ ncreate = 0
    /\ ndeleted = 0
    /\ ask = [c \in Clients |-> NoRequest]

\* Mutant of Tick: a timer removes what has expired whenever the clock advances.
Tick_Sweeps ==
    /\ now < MaxTime
    /\ now' = now + 1
    /\ sessions' = cleanup_expired_sessions(sessions, now + 1)
    /\ last' = NoCall
    /\ UNCHANGED <<lock, session_timeout, issued, frame, hist, nswept, ncreate,
                   ndeleted>>

\* The clock advances.
Tick ==
    /\ now < MaxTime
    /\ now' = now + 1
    /\ last' = NoCall
    /\ UNCHANGED <<sessions, lock, session_timeout, issued, frame, hist, nswept,
                   ncreate, ndeleted>>

\* create_session, lines 33-34: the id and the clock are read before the lock.
create_session_begin(t) ==
    /\ frame[t] = Idle
    /\ ncreate < MaxIds
    /\ \E id \in uuid4 :
        /\ issued' = issued \cup {id}
        /\ frame' = [frame EXCEPT ![t] =
              [pc |-> "create_wait", session_id |-> id, current_time |-> now]]
        /\ hist' = [k \in DOMAIN hist \cup {id} |->
              IF k = id THEN [st |-> "pending", touched |-> now] ELSE hist[k]]
    /\ ncreate' = ncreate + 1
    /\ last' = NoCall
    /\ UNCHANGED <<sessions, lock, session_timeout, now, nswept, ndeleted>>

\* create_session, lines 36-44: take the lock and store the new SessionData.
create_session_insert(t) ==
    /\ frame[t].pc = "create_wait"
    /\ LockFree
    /\ lock' = {t}
    /\ sessions' = Insert(sessions, frame[t].session_id,
                          SessionData(frame[t].session_id, frame[t].current_time))
    /\ frame' = [frame EXCEPT ![t].pc = "create_sweep"]
    /\ last' = NoCall
    /\ UNCHANGED <<session_timeout, now, issued, hist, nswept, ncreate, ndeleted>>

\* create_session, lines 46-49: sweep, release the lock, return the id.
create_session_sweep(t) ==
    /\ frame[t].pc = "create_sweep"
    /\ sessions' = cleanup_expired_sessions(sessions, now)
    /\ lock' = {}
    /\ frame' = [frame EXCEPT ![t] = Idle]
    /\ last' = [op |-> "create", session_id |-> frame[t].session_id,
                current_time |-> frame[t].current_time]
    /\ hist' = [hist EXCEPT ![frame[t].session_id].st = "fresh"]
    /\ nswept' = SweptBy(sessions, sessions')
    /\ UNCHANGED <<session_timeout, now, issued, ncreate, ndeleted>>

\* get_session, lines 57-61, for an id that is not in the table: None.
get_session_absent(id) ==
    /\ SomeIdle
    /\ LockFree
    /\ id \notin DOMAIN sessions
    /\ last' = [op |-> "get", session_id |-> id, found |-> FALSE]
    /\ UNCHANGED <<sessions, lock, session_timeout, now, issued, frame, hist,
                   nswept, ncreate, ndeleted>>

\* Mutant of get_session_lookup: the entry is looked up without the lock.
get_session_lookup_NoLock(t, id) ==
    /\ frame[t] = Idle
    /\ id \in DOMAIN sessions
    /\ lock' = lock
    /\ frame' = [frame EXCEPT ![t] = [pc |-> "get_check", session_id |-> id]]
    /\ last' = NoCall
    /\ UNCHANGED <<sessions, session_timeout, now, issued, hist, nswept, ncreate,
                   ndeleted>>

\* get_session, lines 57-61, for an id that is in the table: the lock is taken
\* and the entry is held in session_data.
get_session_lookup(t, id) ==
    /\ frame[t] = Idle
    /\ LockFree
    /\ id \in DOMAIN sessions
    /\ lock' = {t}
    /\ frame' = [frame EXCEPT ![t] = [pc |-> "get_check", session_id |-> id]]
    /\ last' = NoCall
    /\ UNCHANGED <<sessions, session_timeout, now, issued, hist, nswept, ncreate,
                   ndeleted>>

\* Mutant of get_session_check: an expired lookup sweeps every expired entry
\* instead of deleting only its own.
get_session_check_Sweeps(t) ==
    /\ frame[t].pc = "get_check"
    /\ IF IsExpired(sessions[frame[t].session_id], now)
       THEN /\ sessions' = cleanup_expired_sessions(sessions, now)
            /\ lock' = {}
            /\ frame' = [frame EXCEPT ![t] = Idle]
            /\ last' = [op |-> "get", session_id |-> frame[t].session_id,
                        found |-> FALSE]
            /\ nswept' = SweptBy(sessions, sessions')
       ELSE /\ frame' = [frame EXCEPT ![t].pc = "get_update"]
            /\ last' = NoCall
            /\ UNCHANGED <<sessions, lock, nswept>>
    /\ UNCHANGED <<session_timeout, now, issued, hist, ncreate, ndeleted>>

\* get_session, lines 63-66: the expiry check, with its own reading of the clock.
get_session_check(t) ==
    /\ frame[t].pc = "get_check"
    /\ IF IsExpired(sessions[frame[t].session_id], now)
       THEN /\ sessions' = Remove(sessions, {frame[t].session_id})
            /\ lock' = {}
            /\ frame' = [frame EXCEPT ![t] = Idle]
            /\ last' = [op |-> "get", session_id |-> frame[t].session_id,
                        found |-> FALSE]
            /\ nswept' = SweptBy(sessions, sessions')
       ELSE /\ frame' = [frame EXCEPT ![t].pc = "get_update"]
            /\ last' = NoCall
            /\ UNCHANGED <<sessions, lock, nswept>>
    /\ UNCHANGED <<session_timeout, now, issued, hist, ncreate, ndeleted>>

\* get_session, lines 68-70: refresh last_accessed from the clock, release the
\* lock, return the session.
get_session_update(t) ==
    /\ frame[t].pc = "get_update"
    /\ sessions' = Touch(sessions, frame[t].session_id, now)
    /\ lock' = {}
    /\ frame' = [frame EXCEPT ![t] = Idle]
    /\ last' = [op |-> "get", session_id |-> frame[t].session_id, found |-> TRUE]
    /\ hist' = [hist EXCEPT ![frame[t].session_id] =
                   [st |-> "accessed", touched |-> now]]
    /\ UNCHANGED <<session_timeout, now, issued, nswept, ncreate, ndeleted>>

\* Mutant of delete_session: reports True for a present id without deleting it.
delete_session_KeepsEntry(id) ==
    /\ SomeIdle
    /\ LockFree
    /\ IF id \in DOMAIN sessions
       THEN /\ last' = [op |-> "delete", session_id |-> id, deleted |-> TRUE]
            /\ hist' = Gone({id}, "deleted")
            /\ ndeleted' = ndeleted + 1
            /\ UNCHANGED sessions
       ELSE /\ last' = [op |-> "delete", session_id |-> id, deleted |-> FALSE]
            /\ UNCHANGED <<sessions, hist, ndeleted>>
    /\ UNCHANGED <<lock, session_timeout, now, issued, frame, nswept, ncreate>>

\* Mutant of delete_session: reports True whether or not the id was present.
delete_session_AlwaysTrue(id) ==
    /\ SomeIdle
    /\ LockFree
    /\ sessions' = Remove(sessions, {id})
    /\ last' = [op |-> "delete", session_id |-> id, deleted |-> TRUE]
    /\ hist' = Gone({id}, "deleted")
    /\ ndeleted' = ndeleted + 1
    /\ ndeleted < MaxIds + NumThreads
    /\ UNCHANGED <<lock, session_timeout, now, issued, frame, nswept, ncreate>>

\* delete_session, lines 78-82.
delete_session(id) ==
    /\ SomeIdle
    /\ LockFree
    /\ IF id \in DOMAIN sessions
       THEN /\ sessions' = Remove(sessions, {id})
            /\ last' = [op |-> "delete", session_id |-> id, deleted |-> TRUE]
            /\ hist' = Gone({id}, "deleted")
            /\ ndeleted' = ndeleted + 1
       ELSE /\ last' = [op |-> "delete", session_id |-> id, deleted |-> FALSE]
            /\ UNCHANGED <<sessions, hist, ndeleted>>
    /\ UNCHANGED <<lock, session_timeout, now, issued, frame, nswept, ncreate>>

\* Mutant of get_active_sessions_count: the length is taken before the sweep.
get_active_sessions_count_BeforeSweep ==
    /\ SomeIdle
    /\ LockFree
    /\ sessions' = cleanup_expired_sessions(sessions, now)
    /\ last' = [op |-> "count", count |-> Cardinality(DOMAIN sessions)]
    /\ nswept' = SweptBy(sessions, sessions')
    /\ UNCHANGED <<lock, session_timeout, now, issued, frame, hist, ncreate,
                   ndeleted>>

\* get_active_sessions_count, lines 97-99: sweep, then len(self._sessions).
get_active_sessions_count ==
    /\ SomeIdle
    /\ LockFree
    /\ sessions' = cleanup_expired_sessions(sessions, now)
    /\ last' = [op |-> "count", count |-> Cardinality(DOMAIN sessions')]
    /\ nswept' = SweptBy(sessions, sessions')
    /\ UNCHANGED <<lock, session_timeout, now, issued, frame, hist, ncreate,
                   ndeleted>>

\* Mutant of cleanup_all_sessions: the table is cleared without taking the lock.
cleanup_all_sessions_NoLock ==
    /\ SomeIdle
    /\ sessions' = EmptySessions
    /\ last' = [op |-> "clear"]
    /\ hist' = Gone(DOMAIN sessions, "cleared")
    /\ UNCHANGED <<lock, session_timeout, now, issued, frame, nswept, ncreate,
                   ndeleted>>

\* cleanup_all_sessions, lines 103-104 (called by the shutdown handler).
cleanup_all_sessions ==
    /\ SomeIdle
    /\ LockFree
    /\ sessions' = EmptySessions
    /\ last' = [op |-> "clear"]
    /\ hist' = Gone(DOMAIN sessions, "cleared")
    /\ UNCHANGED <<lock, session_timeout, now, issued, frame, nswept, ncreate,
                   ndeleted>>

\* The store on its own: no /analyze request is in progress.
Next ==
    \/ Tick /\ UNCHANGED ask
    \/ \E t \in Threads : create_session_begin(t) /\ UNCHANGED ask
    \/ \E t \in Threads : create_session_insert(t) /\ UNCHANGED ask
    \/ \E t \in Threads : create_session_sweep(t) /\ UNCHANGED ask
    \/ \E id \in IDs : get_session_absent(id) /\ UNCHANGED ask
    \/ \E t \in Threads, id \in IDs : get_session_lookup(t, id) /\ UNCHANGED ask
    \/ \E t \in Threads : get_session_check(t) /\ UNCHANGED ask
    \/ \E t \in Threads : get_session_update(t) /\ UNCHANGED ask
    \/ \E id \in IDs : delete_session(id) /\ UNCHANGED ask
    \/ get_active_sessions_count /\ UNCHANGED ask
    \/ cleanup_all_sessions /\ UNCHANGED ask

Spec == Init /\ [][Next]_vars

----------------------------------------------------------------------------
\* POST /analyze (analyze_invoices) and the steps of agent.invoke.  A step of
\* the workflow is one action: it draws what its collaborator (retriever or
\* model) returns, or that the call raises.

\* the step is outside the store: it completes no call of the session manager
\* and leaves the store as it is
NoStoreCall ==
    /\ last' = NoCall
    /\ UNCHANGED <<sessions, lock, session_timeout, now, issued, frame, hist,
                   nswept, ncreate, ndeleted>>

\* the client can send a request: it has none, or its last one is answered
CanAsk(c) ==
    ask[c].pc \in {"idle", "done"}

Request(id) ==
    [NoRequest EXCEPT !.pc = "get", !.session_id = id]

\* the invocation of client c is about to run step n
Running(c, n) ==
    ask[c].pc = "invoke" /\ ask[c].node = n

\* Mutant of analyze_get_absent: the 404 is raised inside the try block, so the
\* handler's except clause turns it into the 500 response.
analyze_get_absent_InsideTry(c, id) ==
    /\ CanAsk(c)
    /\ frame[c] = Idle
    /\ get_session_absent(id)
    /\ ask' = [ask EXCEPT ![c] =
          [Request(id) EXCEPT !.pc = "done", !.resp = InternalError]]

\* analyze.py lines 16-21 for a session id that is not in the table:
\* get_session returns None and the handler raises the 404.
analyze_get_absent(c, id) ==
    /\ CanAsk(c)
    /\ frame[c] = Idle
    /\ get_session_absent(id)
    /\ ask' = [ask EXCEPT ![c] =
          [Request(id) EXCEPT !.pc = "done", !.resp = NotFound]]

\* analyze.py line 16 for a session id that is in the table: get_session takes
\* the lock.
analyze_get_lookup(c, id) ==
    /\ CanAsk(c)
    /\ get_session_lookup(c, id)
    /\ ask' = [ask EXCEPT ![c] = Request(id)]

\* analyze.py lines 16-21: get_session checks the expiry; an expired entry is
\* deleted, get_session returns None and the handler raises the 404.
analyze_get_check(c) ==
    /\ ask[c].pc = "get"
    /\ get_session_check(c)
    /\ ask' = [ask EXCEPT ![c] =
          IF last'.op = "get"
          THEN [@ EXCEPT !.pc = "done", !.resp = NotFound]
          ELSE @]

\* analyze.py lines 16-24: get_session returns the SessionData and the handler
\* calls session_data.agent.invoke({"question": request.question}); the
\* workflow starts at its entry point (create_agent, line 265).
analyze_get_update(c) ==
    /\ ask[c].pc = "get"
    /\ get_session_update(c)
    /\ ask' = [ask EXCEPT ![c].pc = "invoke",
                          ![c].agent = sessions[ask[c].session_id].agent]

\* Mutant of retrieve: the step fetches the session's agent from the table again.
retrieve_ThroughTable(c) ==
    /\ Running(c, "retrieve")
    /\ \E docs \in {"docs", Raise} :
          ask' = [ask EXCEPT ![c] =
             [(IF docs = Raise THEN Abort(@, "retrieve")
               ELSE Advance(@, "retrieve", [@.state EXCEPT !.documents = docs]))
              EXCEPT !.agent = IF ask[c].session_id \in DOMAIN sessions
                               THEN sessions[ask[c].session_id].agent ELSE 0]]
    /\ NoStoreCall

\* retrieve, lines 162-165.
retrieve(c) ==
    /\ Running(c, "retrieve")
    /\ \E docs \in {"docs", Raise} :
          ask' = [ask EXCEPT ![c] =
             IF docs = Raise THEN Abort(@, "retrieve")
             ELSE Advance(@, "retrieve", [@.state EXCEPT !.documents = docs])]
    /\ NoStoreCall

\* grade_documents, lines 168-175.
grade_documents(c) ==
    /\ Running(c, "grade_documents")
    /\ \E response \in Verdicts \cup {Raise} :
          ask' = [ask EXCEPT ![c] =
             IF response = Raise THEN Abort(@, "grade_documents")
             ELSE Advance(@, "grade_documents",
                     [@.state EXCEPT !.decision =
                         IF ContainsYes(response) THEN "generate" ELSE "end"])]
    /\ NoStoreCall

\* Mutant of generate: the invocations of the clients share one State dict, so
\* the answer is written into every invocation that is running.
generate_SharedState(c) ==
    /\ Running(c, "generate")
    /\ \E answer \in {"a1", Raise} :
          ask' = [d \in DOMAIN ask |->
             IF d = c
             THEN (IF answer = Raise THEN Abort(ask[c], "generate")
                   ELSE Advance(ask[c], "generate",
                           [ask[c].state EXCEPT !.answer = answer]))
             ELSE IF ask[d].pc = "invoke" /\ answer # Raise
                  THEN [ask[d] EXCEPT !.state.answer = answer]
                  ELSE ask[d]]
    /\ NoStoreCall

\* generate, lines 178-184.
generate(c) ==
    /\ Running(c, "generate")
    /\ \E answer \in {"a1", Raise} :
          ask' = [ask EXCEPT ![c] =
             IF answer = Raise THEN Abort(@, "generate")
             ELSE Advance(@, "generate", [@.state EXCEPT !.answer = answer])]
    /\ NoStoreCall

\* route_to_table, lines 187-193.
route_to_table(c) ==
    /\ Running(c, "route_to_table")
    /\ \E response \in Verdicts \cup {Raise} :
          ask' = [ask EXCEPT ![c] =
             IF response = Raise THEN Abort(@, "route_to_table")
             ELSE Advance(@, "route_to_table",
                     [@.state EXCEPT !.table_decision =
                         IF ContainsYes(response) THEN "format_table"
                         ELSE "route_to_graph"])]
    /\ NoStoreCall

\* format_table, lines 196-208: the chain is invoked before the try block.
format_table(c) ==
    /\ Running(c, "format_table")
    /\ \E content \in TableContents \cup {Raise} :
          ask' = [ask EXCEPT ![c] =
             [(IF content = Raise THEN Abort(@, "format_table")
               ELSE Advance(@, "format_table",
                       [@.state EXCEPT !.table = ParseTable(content)]))
              EXCEPT !.table_input = TableInput(ask[c].state),
                     !.table_reply = content]]
    /\ NoStoreCall

\* route_to_graph, lines 211-217.
route_to_graph(c) ==
    /\ Running(c, "route_to_graph")
    /\ \E response \in Verdicts \cup {Raise} :
          ask' = [ask EXCEPT ![c] =
             IF response = Raise THEN Abort(@, "route_to_graph")
             ELSE Advance(@, "route_to_graph",
                     [@.state EXCEPT !.graph_decision =
                         IF ContainsYes(response) THEN "format_graph"
                         ELSE "end"])]
    /\ NoStoreCall

\* Mutant of format_graph: the step returns its reply under "answer" as well.
format_graph_RewritesAnswer(c) ==
    /\ Running(c, "format_graph")
    /\ \E content \in GraphContents \cup {Raise} :
          ask' = [ask EXCEPT ![c] =
             [(IF content = Raise THEN Abort(@, "format_graph")
               ELSE Advance(@, "format_graph",
                       [@.state EXCEPT !.graph_fig = ParseGraph(content),
                                       !.answer = content]))
              EXCEPT !.graph_input = GraphInput(ask[c].state),
                     !.graph_reply = content]]
    /\ NoStoreCall

\* format_graph, lines 220-252: the chain is invoked before the try block.
format_graph(c) ==
    /\ Running(c, "format_graph")
    /\ \E content \in GraphContents \cup {Raise} :
          ask' = [ask EXCEPT ![c] =
             [(IF content = Raise THEN Abort(@, "format_graph")
               ELSE Advance(@, "format_graph",
                       [@.state EXCEPT !.graph_fig = ParseGraph(content)]))
              EXCEPT !.graph_input = GraphInput(ask[c].state),
                     !.graph_reply = content]]
    /\ NoStoreCall

\* matplotlib_to_base64, lines 292-300: the PNG of the figure, or savefig
\* raises.
Encodings(fig) ==
    {IF fig = "fig_bar" THEN "png_bar" ELSE "png_blank", Raise}

\* analyze.py lines 26-49: agent.invoke has returned the final State; the
\* response is built from it.  The figure, if there is one, is encoded inside
\* the try block.
analyze_respond(c) ==
    /\ Running(c, END)
    /\ LET result == ask[c].state
           graphs == IF result.graph_fig \in {Absent, None} THEN {None}
                     ELSE Encodings(result.graph_fig)
       IN  \E graph_base64 \in graphs :
             ask' = [ask EXCEPT ![c] =
                [@ EXCEPT !.pc = "done",
                          !.resp = IF graph_base64 = Raise THEN InternalError
                                   ELSE [status |-> "200",
                                         answer |-> Answer(result),
                                         table |-> TableData(result),
                                         graph |-> graph_base64,
                                         detail |-> Absent]]]
    /\ NoStoreCall

\* The service after one upload: POST /upload has called create_session once,
\* at time 0, and the session it stored is the only one.
AskInit ==
    /\ sessions = Insert(EmptySessions, 1, SessionData(1, 0))
    /\ lock = {}
    /\ session_timeout \in 0..MaxTimeout
    /\ now = 0
    /\ issued = {1}
    /\ frame = [t \in Threads |-> Idle]
    /\ last = NoCall
    /\ hist = [k \in {1} |-> [st |-> "fresh", touched |-> 0]]
    /\ nswept = 0
    /\ ncreate = 1
    /\ ndeleted = 0
    /\ ask = [c \in Clients |-> NoRequest]

\* Clients ask questions about the uploaded session while time passes.
AskNext ==
    \/ Tick /\ UNCHANGED ask
    \/ \E c \in Clients, id \in IDs : analyze_get_absent(c, id)
    \/ \E c \in Clients, id \in IDs : analyze_get_lookup(c, id)
    \/ \E c \in Clients : analyze_get_check(c)
    \/ \E c \in Clients : analyze_get_update(c)
    \/ \E c \in Clients : retrieve(c)
    \/ \E c \in Clients : grade_documents(c)
    \/ \E c \in Clients : generate(c)
    \/ \E c \in Clients : route_to_table(c)
    \/ \E c \in Clients : format_table(c)
    \/ \E c \in Clients : route_to_graph(c)
    \/ \E c \in Clients : format_graph(c)
    \/ \E c \in Clients : analyze_respond(c)

AskSpec == AskInit /\ [][AskNext]_<<vars, ask>>

\* One request raced by the calls that remove sessions: while client 1 asks,
\* other threads delete a session, count the sessions (health router) and
\* clear the store (shutdown hook).
Asker == {1}

ServeNext ==
    \/ Tick /\ UNCHANGED ask
    \/ \E c \in Asker, id \in IDs : analyze_get_absent(c, id)
    \/ \E c \in Asker, id \in IDs : analyze_get_lookup(c, id)
    \/ \E c \in Asker : analyze_get_check(c)
    \/ \E c \in Asker : analyze_get_update(c)
    \/ \E c \in Asker : retrieve(c)
    \/ \E c \in Asker : grade_documents(c)
    \/ \E c \in Asker : generate(c)
    \/ \E c \in Asker : route_to_table(c)
    \/ \E c \in Asker : format_table(c)
    \/ \E c \in Asker : route_to_graph(c)
    \/ \E c \in Asker : format_graph(c)
    \/ \E c \in Asker : analyze_respond(c)
    \/ \E id \in IDs : delete_session(id) /\ UNCHANGED ask
    \/ get_active_sessions_count /\ UNCHANGED ask
    \/ cleanup_all_sessions /\ UNCHANGED ask

ServeSpec == AskInit /\ [][ServeNext]_<<vars, ask>>

\* Two requests at once: two uploads have stored two sessions at time 0, and
\* two clients ask questions about them, each about either session, before
\* the clock has advanced.
Pair == {1, 2}

PairInit ==
    /\ sessions = Insert(Insert(EmptySessions, 1, SessionData(1, 0)),
                         2, SessionData(2, 0))
    /\ lock = {}
    /\ session_timeout = MaxTimeout
    /\ now = 0
    /\ issued = {1, 2}
    /\ frame = [t \in Threads |-> Idle]
    /\ last = NoCall
    /\ hist = [k \in {1, 2} |-> [st |-> "fresh", touched |-> 0]]
    /\ nswept = 0
    /\ ncreate = 2
    /\ ndeleted = 0
    /\ ask = [c \in Pair |-> NoRequest]

PairNext ==
    \/ \E c \in Pair, id \in {1, 2} : analyze_get_lookup(c, id)
    \/ \E c \in Pair : analyze_get_check(c)
    \/ \E c \in Pair : analyze_get_update(c)
    \/ \E c \in Pair : retrieve(c)
    \/ \E c \in Pair : grade_documents(c)
    \/ \E c \in Pair : generate(c)
    \/ \E c \in Pair : route_to_table(c)
    \/ \E c \in Pair : format_table(c)
    \/ \E c \in Pair : route_to_graph(c)
    \/ \E c \in Pair : format_graph(c)
    \/ \E c \in Pair : analyze_respond(c)

PairSpec == PairInit /\ [][PairNext]_<<vars, ask>>

\* The two requests when every call to the retriever, the model and the
\* renderer returns or raises in the end: no invocation stays at a step for
\* ever.
PairFairSpec ==
    /\ PairSpec
    /\ \A c \in Pair :
          WF_<<vars, ask>>(\/ retrieve(c)
                           \/ grade_documents(c)
                           \/ generate(c)
                           \/ route_to_table(c)
                           \/ format_table(c)
                           \/ route_to_graph(c)
                           \/ format_graph(c)
                           \/ analyze_respond(c))

----------------------------------------------------------------------------
\* Vocabulary of the properties

\* create_session has returned id, and no delete_session or
\* cleanup_all_sessions has removed it since
Live(id) ==
    id \in DOMAIN hist /\ hist[id].st \in {"fresh", "accessed"}

\* create_session has returned id and nothing has touched it since
Fresh(id) ==
    id \in DOMAIN hist /\ hist[id].st = "fresh"

\* the latest step completed get_session(id), returning found
GetReturned(id, found) ==
    last = [op |-> "get", session_id |-> id, found |-> found]

\* the step completes a get_session call
GetReturns ==
    last'.op = "get"

\* every entry of S2 other than id is the same entry of S, and conversely
SameExcept(S, S2, id) ==
    /\ DOMAIN S2 \ {id} = DOMAIN S \ {id}
    /\ \A k \in DOMAIN S \ {id} : S2[k] = S[k]

----------------------------------------------------------------------------
\* C1: a get_session that returns a session passed its expiry check with
\* now - last_accessed <= timeout (the check is the only way to the update),
\* and on return the session is in the table with last_accessed equal to the
\* clock read by the call, all other entries untouched.
C1_GetRefreshes ==
    [][ /\ \A t \in Threads :
             frame'[t].pc = "get_update" /\ frame[t].pc # "get_update"
                => /\ frame[t].pc = "get_check"
                   /\ now - sessions[frame[t].session_id].last_accessed
                         <= session_timeout
        /\ (GetReturns /\ last'.found)
             => \E t \in Threads :
                   /\ frame[t].pc = "get_update"
                   /\ frame'[t] = Idle
                   /\ last'.session_id = frame[t].session_id
                   /\ last'.session_id \in DOMAIN sessions'
                   /\ sessions'[last'.session_id].last_accessed = now
                   /\ sessions'[last'.session_id].created_at
                         = sessions[last'.session_id].created_at
                   /\ SameExcept(sessions, sessions', last'.session_id)
      ]_vars

\* C1 witness: a get_session returned a session some time after its creation,
\* and the refreshed last_accessed is the current clock.
C1_Witness ==
    \E id \in DOMAIN sessions :
        /\ GetReturned(id, TRUE)
        /\ sessions[id].last_accessed = now
        /\ sessions[id].created_at < now

\* C2: for a session created at t0 (the clock read by create_session) whose
\* create_session has returned and that was not accessed, deleted or cleared
\* since, a get_session deciding at clock t returns it when t - t0 <= timeout
\* and reports None when t - t0 > timeout, whether it finds the entry missing
\* (a sweep removed it) or finds it expired.
C2_ExpirationDeterminism ==
    [][ /\ \A id \in IDs :
             (Fresh(id) /\ LockFree /\ GetReturns /\ last'.session_id = id)
                => /\ id \notin DOMAIN sessions
                   /\ ~last'.found
                   /\ now - hist[id].touched > session_timeout
        /\ \A t \in Threads :
             (frame[t].pc = "get_check" /\ Fresh(frame[t].session_id)
                /\ frame'[t] # frame[t])
                => IF now - hist[frame[t].session_id].touched <= session_timeout
                   THEN frame'[t].pc = "get_update"
                   ELSE /\ GetReturns
                        /\ last'.session_id = frame[t].session_id
                        /\ ~last'.found
        /\ \A t \in Threads :
             (frame[t].pc = "get_update" /\ frame'[t] # frame[t])
                => /\ GetReturns
                   /\ last'.session_id = frame[t].session_id
                   /\ last'.found
      ]_vars

\* C2 witness: a get_session of a never-accessed session reported None after
\* the timeout had passed since its creation.
C2_Witness ==
    \E id \in IDs :
        /\ Fresh(id)
        /\ GetReturned(id, FALSE)
        /\ now - hist[id].touched > session_timeout

\* C3: the lifetime slides.  A session whose create_session has returned and
\* that was not deleted or cleared stays in the table, with last_accessed equal
\* to its latest touch (creation or successful get_session), as long as no
\* more than timeout has passed since that touch, however old it is and
\* whatever sweeps have run; and a get_session reports None for it only when
\* more than timeout has passed since the latest touch.
C3_SlidingWindow ==
    \A id \in IDs :
        Live(id) =>
            /\ now - hist[id].touched <= session_timeout
                  => /\ id \in DOMAIN sessions
                     /\ sessions[id].last_accessed = hist[id].touched
            /\ GetReturned(id, FALSE)
                  => now - hist[id].touched > session_timeout

\* C3 witness: a get_session returned a session that was created more than
\* timeout ago.
C3_Witness ==
    \E id \in DOMAIN sessions :
        /\ GetReturned(id, TRUE)
        /\ now - sessions[id].created_at > session_timeout

\* C4: last_accessed of an entry changes only in the step that returns that
\* entry from get_session; a get_session that reports None leaves the table
\* unchanged when the id is absent and removes exactly the expired entry of
\* that id otherwise; a sweep leaves the entries it keeps as they were.
C4_FailedGetDoesNotTouch ==
    [][ /\ \A k \in DOMAIN sessions \cap DOMAIN sessions' :
             /\ sessions'[k].last_accessed # sessions[k].last_accessed
                   => (GetReturns /\ last'.session_id = k /\ last'.found)
             /\ sessions'[k].created_at = sessions[k].created_at
        /\ (GetReturns /\ ~last'.found)
             => IF last'.session_id \in DOMAIN sessions
                THEN /\ now - sessions[last'.session_id].last_accessed
                           > session_timeout
                     /\ last'.session_id \notin DOMAIN sessions'
                     /\ SameExcept(sessions, sessions', last'.session_id)
                ELSE sessions' = sessions
      ]_vars

\* C4 witness: a get_session reported None for an expired session while another
\* entry, itself expired, is still in the table.
C4_Witness ==
    \E id \in IDs, k \in DOMAIN sessions :
        /\ Live(id)
        /\ GetReturned(id, FALSE)
        /\ id \notin DOMAIN sessions
        /\ now - sessions[k].last_accessed > session_timeout

\* C5: delete_session(id) returns True exactly when id was in the table, leaves
\* id absent and every other entry unchanged; once it has returned True for
\* id, a further delete_session(id) returns False and changes nothing, and a
\* get_session(id) reports None.
C5_IdempotentDelete ==
    [][ /\ last'.op = "delete"
             => /\ last'.deleted = (last'.session_id \in DOMAIN sessions)
                /\ last'.session_id \notin DOMAIN sessions'
                /\ SameExcept(sessions, sessions', last'.session_id)
        /\ \A id \in DOMAIN hist :
             hist[id].st = "deleted"
                => /\ id \notin DOMAIN sessions'
                   /\ (last'.op = "delete" /\ last'.session_id = id)
                         => (~last'.deleted /\ sessions' = sessions)
                   /\ (GetReturns /\ last'.session_id = id) => ~last'.found
      ]_vars

\* C5 witness: a second delete_session of an id already deleted returned False.
C5_Witness ==
    \E id \in DOMAIN hist :
        /\ hist[id].st = "deleted"
        /\ last = [op |-> "delete", session_id |-> id, deleted |-> FALSE]

\* C6: when create_session returns id, the table holds a session for id whose
\* created_at and last_accessed equal the clock the call read, no entry of the
\* table is expired, and the entries that were live when the call read the
\* clock are unchanged, however much time passed before the insert and the
\* sweep.  (The code reads the clock before it takes the lock and the sweep
\* reads it again: this statement fails.)
C6_CreateStoresSession ==
    [][ last'.op = "create"
          => /\ last'.session_id \in DOMAIN sessions'
             /\ sessions'[last'.session_id].created_at = last'.current_time
             /\ sessions'[last'.session_id].last_accessed = last'.current_time
             /\ \A k \in DOMAIN sessions' :
                   now - sessions'[k].last_accessed <= session_timeout
             /\ \A k \in DOMAIN sessions \ {last'.session_id} :
                   last'.current_time - sessions[k].last_accessed <= session_timeout
                      => (k \in DOMAIN sessions' /\ sessions'[k] = sessions[k])
      ]_vars

C8_CountIsCreatesMinusDeletes ==
    /\ (/\ last.op = "count"
        /\ nswept = 0
        /\ \A id \in DOMAIN hist : hist[id].st # "cleared"
        /\ \A t \in Threads : frame[t].pc \notin {"create_wait", "create_sweep"})
           => last.count = ncreate - ndeleted
    /\ ndeleted = Cardinality({id \in DOMAIN hist : hist[id].st = "deleted"})

\* C8 witness: a count taken after two creates and one successful delete.
C8_Witness ==
    /\ last.op = "count"
    /\ nswept = 0
    /\ \A id \in DOMAIN hist : hist[id].st # "cleared"
    /\ \A t \in Threads : frame[t] = Idle
    /\ ncreate > ndeleted
    /\ ndeleted > 0
    /\ last.count = ncreate - ndeleted

\* C9: get_active_sessions_count removes exactly the entries with
\* now - last_accessed > timeout, leaves the others as they were, and returns
\* how many are left.
C9_ActiveCount ==
    [][ last'.op = "count"
          => /\ DOMAIN sessions' =
                   {k \in DOMAIN sessions :
                       now - sessions[k].last_accessed <= session_timeout}
             /\ \A k \in DOMAIN sessions' : sessions'[k] = sessions[k]
             /\ last'.count = Cardinality(DOMAIN sessions')
      ]_vars

\* C9 witness: a count that swept an entry and kept another.
C9_Witness ==
    /\ last.op = "count"
    /\ last.count > 0
    /\ \E id \in IDs : Live(id) /\ id \notin DOMAIN sessions

\* C10: cleanup_all_sessions leaves the table empty and a cleared id never
\* comes back; it never cuts into a call in progress: the entry a get_session
\* is checking or updating and the entry a create_session has inserted are in
\* the table until that call returns, a session returned by get_session is in
\* the table, and every entry of the table is a complete SessionData stored
\* under its own id.
C10_ClearIsAtomic ==
    /\ last.op = "clear" => DOMAIN sessions = {}
    /\ \A id \in DOMAIN hist :
          hist[id].st = "cleared"
             => (id \notin DOMAIN sessions /\ ~GetReturned(id, TRUE))
    /\ \A t \in Threads :
          frame[t].pc \in {"get_check", "get_update", "create_sweep"}
             => (frame[t].session_id \in DOMAIN sessions /\ lock = {t})
    /\ \A id \in IDs : GetReturned(id, TRUE) => id \in DOMAIN sessions
    /\ \A k \in DOMAIN sessions :
          /\ sessions[k].session_id = k
          /\ sessions[k].created_at <= sessions[k].last_accessed
          /\ sessions[k].last_accessed <= now

\* C10 witness: the table was cleared of a session while a create_session call
\* was waiting for the lock.
C10_Witness ==
    /\ last.op = "clear"
    /\ \E id \in DOMAIN hist : hist[id].st = "cleared"
    /\ \E t \in Threads : frame[t].pc = "create_wait"

----------------------------------------------------------------------------
\* Vocabulary of the properties of the workflow and of POST /analyze

\* the clients whose request has gone past get_session into agent.invoke
Invoked == {c \in Clients : ask[c].pc \in {"invoke", "done"} /\
                            (ask[c].pc = "done" => ask[c].resp.status # "404")}

\* the invocation of client c has reached END
AtEnd(c) == c \in Invoked /\ ask[c].node = END

\* step n has run in the invocation of client c
Ran(c, n) == \E i \in 1..Len(ask[c].path) : ask[c].path[i] = n

IsPrefix(p, q) ==
    Len(p) <= Len(q) /\ \A i \in 1..Len(p) : p[i] = q[i]

\* the step sequences listed for a run that reaches END
ListedPaths ==
    { <<"retrieve", "grade_documents">>,
      <<"retrieve", "grade_documents", "generate", "route_to_table",
        "route_to_graph">>,
      <<"retrieve", "grade_documents", "generate", "route_to_table",
        "format_table", "route_to_graph">>,
      <<"retrieve", "grade_documents", "generate", "route_to_table",
        "route_to_graph", "format_graph">>,
      <<"retrieve", "grade_documents", "generate", "route_to_table",
        "format_table", "route_to_graph", "format_graph">> }

\* the steps run so far, followed by the step about to run if there is one
Course(c) ==
    IF ask[c].pc = "invoke" /\ ask[c].node # END
    THEN Append(ask[c].path, ask[c].node)
    ELSE ask[c].path

\* C11: every invocation starts at retrieve and moves only along the listed
\* transitions: the steps run, with the step about to run, are always the
\* beginning of a listed sequence, and they are a whole listed sequence when
\* the invocation is at END; generate runs only on decision "generate",
\* format_table only on table_decision "format_table", format_graph only on
\* graph_decision "format_graph".
C11_ListedTransitions ==
    \A c \in Invoked :
        /\ Course(c) # <<>> /\ Course(c)[1] = "retrieve"
        /\ \E q \in ListedPaths : IsPrefix(Course(c), q)
        /\ AtEnd(c) => ask[c].path \in ListedPaths
        /\ Ran(c, "generate") => ask[c].state.decision = "generate"
        /\ Ran(c, "format_table") =>
              ask[c].state.table_decision = "format_table"
        /\ Ran(c, "format_graph") =>
              ask[c].state.graph_decision = "format_graph"

\* an invocation has reached END through both optional steps
C11_Witness ==
    \E c \in Clients : AtEnd(c) /\ Len(ask[c].path) = 7

\* the request of client c has been answered after its invocation started
Finished(c) == c \in Invoked /\ ask[c].pc = "done"

\* C12: in every invocation each step runs at most once, format_table (when it
\* runs) comes before route_to_graph, and route_to_graph has run in every
\* finished invocation in which route_to_table took its decision, whichever
\* the decision was.
C12_GraphRoutingAlwaysFollows ==
    \A c \in Invoked :
        /\ \A i, j \in 1..Len(ask[c].path) :
              ask[c].path[i] = ask[c].path[j] => i = j
        /\ \A i, j \in 1..Len(ask[c].path) :
              ask[c].path[i] = "route_to_graph" /\ ask[c].path[j] = "format_table"
                 => j < i
        /\ Finished(c) /\ ask[c].state.table_decision # Absent
              => Ran(c, "route_to_graph")

\* the step that ran last in the invocation of client c
LastStep(c) ==
    IF ask[c].path = <<>> THEN "none" ELSE ask[c].path[Len(ask[c].path)]

\* the request of client c has been answered with a result
Succeeded(c) == Finished(c) /\ ask[c].resp.status = "200"

\* C13: grade_documents is fail-closed: once it has run the decision is
\* "generate" or "end", and an invocation that finishes right after
\* grade_documents, the failure of the model call included, has decision "end",
\* is at END and is answered as a successful run.
C13_GradeFailsClosed ==
    \A c \in Invoked :
        /\ Ran(c, "grade_documents") =>
              ask[c].state.decision \in {"generate", "end"}
        /\ Finished(c) /\ LastStep(c) = "grade_documents" =>
              /\ ask[c].state.decision = "end"
              /\ ask[c].node = END
              /\ Succeeded(c)

\* C14: route_to_table and route_to_graph fail open: once one of them has run
\* its decision is taken, the failure of the model call included, and an
\* invocation that finishes right after one of them is answered with a result
\* that carries the answer written by generate.
C14_RoutingFailsOpen ==
    \A c \in Invoked :
        /\ Ran(c, "route_to_table") =>
              ask[c].state.table_decision \in {"format_table", "route_to_graph"}
        /\ Ran(c, "route_to_graph") =>
              ask[c].state.graph_decision \in {"format_graph", "end"}
        /\ Finished(c) /\ LastStep(c) \in {"route_to_table", "route_to_graph"} =>
              /\ Succeeded(c)
              /\ ask[c].resp.answer = ask[c].state.answer
              /\ ask[c].state.answer # Absent

\* the model's reply to the table prompt is not a list of records
BadTableReply(c) == ask[c].table_reply \in {"{..}", "not json"}

\* the model's reply to the graph prompt cannot be turned into a figure
BadGraphReply(c) == ask[c].graph_reply \in {"[..]", "not json"}

\* C15: when the reply to format_table is not JSON, or is JSON that is not a
\* list of records, the table is None, the answer of generate stays in the
\* state and route_to_graph is the next step, so it has run in every such
\* invocation that finished; when the reply to format_graph cannot be parsed
\* the figure is None, the invocation is at END and it is answered with a
\* result that carries the answer, the table the state holds and no graph.
C15_ParseFailureDegrades ==
    \A c \in Invoked :
        /\ BadTableReply(c) =>
              /\ ask[c].state.table = None
              /\ ask[c].state.answer = "a1"
              /\ Ran(c, "route_to_graph") \/ Running(c, "route_to_graph")
        /\ BadGraphReply(c) =>
              /\ ask[c].state.graph_fig = None
              /\ ask[c].state.answer = "a1"
              /\ ask[c].node = END
              /\ Finished(c) =>
                    /\ Succeeded(c)
                    /\ ask[c].resp.answer = "a1"
                    /\ ask[c].resp.table = TableData(ask[c].state)
                    /\ ask[c].resp.graph = None

\* both replies were unusable and the request has been answered
C15_Witness ==
    \E c \in Clients : BadTableReply(c) /\ BadGraphReply(c) /\ Succeeded(c)

\* C16: a failure of the model call inside format_table or format_graph never
\* aborts the invocation: an invocation that finishes right after one of the
\* two steps, with no figure to encode, is answered with a result that carries
\* the answer written by generate.
C16_FormatCallFailureDegrades ==
    \A c \in Invoked :
        Finished(c) /\ LastStep(c) \in {"format_table", "format_graph"}
                    /\ ask[c].state.graph_fig \in {Absent, None} =>
            /\ Succeeded(c)
            /\ ask[c].resp.answer = "a1"

\* this step is client c running retrieve with the retriever raising, or
\* running generate with the model call raising: the step's key is not written
FatalStep(c) ==
    \/ Running(c, "retrieve") /\ ask'[c] # ask[c]
          /\ ask'[c].state.documents = Absent
    \/ Running(c, "generate") /\ ask'[c] # ask[c]
          /\ ask'[c].state.answer = Absent

\* C17: when the retriever raises in retrieve or the model call raises in
\* generate, the invocation stops at that step and the request is answered
\* with the 500 response, which has a detail text and no answer, table or
\* graph; an answered request runs no further step.
C17_FatalSteps ==
    [][\A c \in Clients :
          /\ FatalStep(c) =>
                /\ ask'[c].pc = "done"
                /\ ask'[c].path = Append(ask[c].path, ask[c].node)
                /\ ask'[c].node = ask[c].node
                /\ ask'[c].resp.status = "500"
                /\ ask'[c].resp.detail # Absent
                /\ ask'[c].resp.answer = Absent
                /\ ask'[c].resp.table = Absent
                /\ ask'[c].resp.graph = Absent
          /\ ask[c].pc = "done" /\ ask'[c] # ask[c] => ask'[c].path = <<>>
      ]_<<vars, ask>>

\* generate has failed after retrieve and grade_documents succeeded
C17_Witness ==
    \E c \in Clients :
        /\ Finished(c) /\ LastStep(c) = "generate"
        /\ ask[c].state.answer = Absent
        /\ ask[c].resp.status = "500"

\* the steps after grade_documents
LaterSteps ==
    {"generate", "route_to_table", "format_table", "route_to_graph",
     "format_graph"}

\* C18 as stated: when grading yields decision "end" none of the later steps
\* runs and the response delivered has no answer, no table and no graph.
C18_StopDeliversNothing ==
    \A c \in Invoked :
        ask[c].state.decision = "end" =>
            /\ \A n \in LaterSteps : ~Ran(c, n)
            /\ Finished(c) =>
                  /\ ask[c].resp.answer \in {Absent, None}
                  /\ ask[c].resp.table \in {Absent, None}
                  /\ ask[c].resp.graph \in {Absent, None}

\* C18 amended: when grading yields decision "end" none of the later steps
\* runs and the final State has no answer, no table and no figure; the
\* response delivered is a result whose answer is the fixed text
\* "No relevant information found.", with no table and no graph.
C18_StopDeliversDefaultText ==
    \A c \in Invoked :
        ask[c].state.decision = "end" =>
            /\ \A n \in LaterSteps : ~Ran(c, n)
            /\ ask[c].state.answer = Absent
            /\ ask[c].state.table = Absent
            /\ ask[c].state.graph_fig = Absent
            /\ Finished(c) =>
                  /\ Succeeded(c)
                  /\ ask[c].resp.answer = "No relevant information found."
                  /\ ask[c].resp.table = None
                  /\ ask[c].resp.graph = None

\* a request whose grading said "end" has been answered
C18_Witness ==
    \E c \in Clients : Finished(c) /\ ask[c].state.decision = "end"

\* the model's reply to the table prompt is a list of records
RowsReply(c) == ask[c].table_reply \in {"[{..}]", "[]"}

\* the model's reply to the graph prompt is an object a figure is made from
FigureReply(c) == ask[c].graph_reply \in {"{type: bar}", "{type: other}"}

C20_NotFoundIffGetSaysSo ==
    [][\A c \in Clients :
          (ask'[c] # ask[c]) =>
             /\ ask'[c].resp.status = "404" <=>
                   last' = [op |-> "get", session_id |-> ask'[c].session_id,
                            found |-> FALSE]
             /\ ask'[c].resp.status = "404" =>
                   /\ ask'[c].path = <<>>
                   /\ ask'[c].state = InitialState
                   /\ ask'[c].table_input = Absent
                   /\ ask'[c].graph_input = Absent
             /\ ask'[c].path # <<>> => ask'[c].resp.status # "404"
             /\ ask'[c].resp.status = "500" => ask'[c].path # <<>>
      ]_<<vars, ask>>

\* a request for the uploaded session has been answered 404 after it expired
C20_Witness ==
    \E c \in Clients :
        /\ ask[c].resp.status = "404"
        /\ ask[c].session_id \in issued
        /\ nswept > 0

\* C21: when a figure was produced by format_graph, the request is answered
\* with a result, whether or not the figure can be encoded.
C21_RenderFailureDegrades ==
    \A c \in Invoked :
        Finished(c) /\ ask[c].state.graph_fig \notin {Absent, None} =>
            /\ Succeeded(c)
            /\ ask[c].resp.answer = "a1"

----------------------------------------------------------------------------
\* Properties of the locking of the store

\* thread t is between the places where a call takes and releases the lock
InCritical(t) == frame[t].pc \in {"create_sweep", "get_check", "get_update"}

\* this step is taken by thread t inside a call
StepOf(t) == frame'[t] # frame[t]

\* C22: at most one thread is inside a critical section, and it is the holder
\* of the lock; the table and the last_accessed values in it change only in a
\* step of the holder, or in a call that takes the free lock and releases it
\* within the step; in particular nothing changes the table between the
\* expiry check of a get_session and its update.  The sweep of create_session
\* runs with the lock already held by its thread and is never kept waiting.
C22_OneLock ==
    /\ [](/\ Cardinality(lock) <= 1
          /\ \A t \in Threads : InCritical(t) <=> t \in lock
          /\ \A t \in Threads :
                frame[t].pc = "create_sweep" => ENABLED create_session_sweep(t))
    /\ [][/\ sessions' # sessions =>
                \/ lock = {} /\ lock' \subseteq {t \in Threads : StepOf(t)}
                \/ \E t \in lock : StepOf(t)
          /\ \A t \in Threads :
                frame[t].pc = "get_update" /\ ~StepOf(t) => sessions' = sessions
         ]_vars

\* one thread is between the expiry check and the update of its get_session
\* while another waits for the lock in create_session
C22_Witness ==
    \E t, u \in Threads :
        /\ frame[t].pc = "get_update"
        /\ frame[u].pc = "create_wait"
        /\ lock = {t}

----------------------------------------------------------------------------
\* Properties of the expiry

\* C26: expiry is lazy: the clock advancing never changes the table, and an
\* entry leaves the table only in the step in which get_session returns None
\* for that id after finding it expired, in a sweep by create_session or
\* get_active_sessions_count that finds it expired, in a delete_session of
\* that id, or in cleanup_all_sessions; so an expired entry stays until one of
\* these, and a get_session removes no entry but its own.
C26_LazyExpiry ==
    [][/\ now' # now => sessions' = sessions
       /\ \A id \in DOMAIN sessions \ DOMAIN sessions' :
             \/ /\ last'.op = "get"
                /\ last'.session_id = id
                /\ ~last'.found
                /\ IsExpired(sessions[id], now)
             \/ /\ last'.op \in {"create", "count"}
                /\ IsExpired(sessions[id], now)
             \/ /\ last'.op = "delete"
                /\ last'.session_id = id
             \/ last'.op = "clear"
      ]_vars

\* an expired entry is still in the table when the clock has reached its bound
C26_Witness ==
    \E id \in DOMAIN sessions :
        /\ IsExpired(sessions[id], now)
        /\ now = MaxTime

----------------------------------------------------------------------------
\* Properties of the State of one invocation

\* the keys of State that the steps write, and the step that returns each
Owner ==
    [documents |-> "retrieve", decision |-> "grade_documents",
     answer |-> "generate", table_decision |-> "route_to_table",
     table |-> "format_table", graph_decision |-> "route_to_graph",
     graph_fig |-> "format_graph"]

\* this step belongs to the invocation client c is in
SameInvocation(c) == ask[c].pc = "invoke"

\* C24: within one invocation every key of State is written at most once and
\* only by the step that owns it, the question is never changed, and a
\* decision that has been set keeps its value until the invocation ends.
C24_WriteOnceByOwner ==
    [][\A c \in Clients :
          SameInvocation(c) =>
             /\ ask'[c].state.question = ask[c].state.question
             /\ \A key \in DOMAIN Owner :
                   ask'[c].state[key] # ask[c].state[key] =>
                      /\ ask[c].state[key] = Absent
                      /\ ask[c].node = Owner[key]
      ]_<<vars, ask>>

\* an invocation has written all seven keys
C24_Witness ==
    \E c \in Clients :
        /\ AtEnd(c)
        /\ \A key \in DOMAIN Owner : ask[c].state[key] # Absent

----------------------------------------------------------------------------
\* Properties of the session reference held by a request

\* the step of the invocation of client c, whichever is next
InvocationStep(c) ==
    \/ retrieve(c)
    \/ grade_documents(c)
    \/ generate(c)
    \/ route_to_table(c)
    \/ format_table(c)
    \/ route_to_graph(c)
    \/ format_graph(c)
    \/ analyze_respond(c)

\* session id was stored and is no longer in the table
Removed(id) ==
    id \in DOMAIN hist /\ hist[id].st # "pending" /\ id \notin DOMAIN sessions

\* C23: the SessionData that get_session returned stays usable when its entry
\* leaves the table: the request keeps the agent of the session it asked for,
\* its next step can always be taken, whether or not the entry is still in
\* the table, and it is answered as an invocation is (never 404); a request
\* that starts for an id that has been removed is answered 404.
C23_ReferenceOutlivesEntry ==
    /\ [](\A c \in Asker :
            /\ c \in Invoked =>
                  /\ ask[c].agent = ask[c].session_id
                  /\ ask[c].pc = "invoke" => ENABLED InvocationStep(c)
            /\ ask[c].pc = "done" /\ ask[c].path # <<>> =>
                  ask[c].resp.status \in {"200", "500"})
    /\ [][\A c \in Asker :
            CanAsk(c) /\ ask'[c] # ask[c] /\ Removed(ask'[c].session_id) =>
               ask'[c].pc = "done" /\ ask'[c].resp.status = "404"
         ]_<<vars, ask>>

\* a request has been answered with answer, table and graph although its
\* session was deleted while it ran
C23_Witness ==
    \E c \in Asker :
        /\ Succeeded(c)
        /\ Len(ask[c].path) = 7
        /\ ask[c].resp.table = "[{..}]"
        /\ Removed(ask[c].session_id)
        /\ hist[ask[c].session_id].st = "deleted"

----------------------------------------------------------------------------
\* Properties of two requests at once

\* what the collaborator of the step about to run in record a can return
RepliesAt(a) ==
    CASE a.node = "retrieve" -> {"docs", Raise}
      [] a.node = "generate" -> {"a1", Raise}
      [] a.node \in {"grade_documents", "route_to_table", "route_to_graph"} ->
            Verdicts \cup {Raise}
      [] a.node = "format_table" -> TableContents \cup {Raise}
      [] a.node = "format_graph" -> GraphContents \cup {Raise}
      [] a.node = END ->
            IF a.state.graph_fig \in {Absent, None} THEN {None}
            ELSE Encodings(a.state.graph_fig)

\* the State after the step about to run in record a has heard reply
Heard(a, reply) ==
    CASE a.node = "retrieve" -> [a.state EXCEPT !.documents = reply]
      [] a.node = "grade_documents" ->
            [a.state EXCEPT !.decision =
                IF ContainsYes(reply) THEN "generate" ELSE "end"]
      [] a.node = "generate" -> [a.state EXCEPT !.answer = reply]
      [] a.node = "route_to_table" ->
            [a.state EXCEPT !.table_decision =
                IF ContainsYes(reply) THEN "format_table" ELSE "route_to_graph"]
      [] a.node = "format_table" -> [a.state EXCEPT !.table = ParseTable(reply)]
      [] a.node = "route_to_graph" ->
            [a.state EXCEPT !.graph_decision =
                IF ContainsYes(reply) THEN "format_graph" ELSE "end"]
      [] a.node = "format_graph" ->
            [a.state EXCEPT !.graph_fig = ParseGraph(reply)]

\* the record that a request running alone goes to from record a when the
\* collaborator of its next step returns reply: nothing but a and reply is
\* read
Alone(a, reply) ==
    IF a.node = END
    THEN [a EXCEPT !.pc = "done",
                   !.resp = IF reply = Raise THEN InternalError
                            ELSE [status |-> "200", answer |-> Answer(a.state),
                                  table |-> TableData(a.state), graph |-> reply,
                                  detail |-> Absent]]
    ELSE [(IF reply = Raise THEN Abort(a, a.node)
           ELSE Advance(a, a.node, Heard(a, reply)))
          EXCEPT !.table_input =
                    IF a.node = "format_table" THEN a.state.answer ELSE @,
                 !.table_reply = IF a.node = "format_table" THEN reply ELSE @,
                 !.graph_input =
                    IF a.node = "format_graph"
                    THEN <<a.state.question, a.state.answer>> ELSE @,
                 !.graph_reply = IF a.node = "format_graph" THEN reply ELSE @]

\* C25: every request has its own State: a step of one invocation changes
\* nothing of the other request, and it takes its own request to the record
\* the request would go to running alone with the same reply of the
\* collaborator, in whatever order the steps of the two requests are taken
\* and whether they use the same session or different ones; the agent in use
\* is the one of the session asked for.
C25_InvocationsIsolated ==
    [][\A c \in Pair :
          ask'[c] # ask[c] =>
             /\ \A d \in Pair \ {c} : ask'[d] = ask[d]
             /\ ask[c].pc = "invoke" =>
                   /\ \E reply \in RepliesAt(ask[c]) :
                         ask'[c] = Alone(ask[c], reply)
                   /\ ask[c].agent = ask[c].session_id
      ]_<<vars, ask>>

\* one request has been answered with answer, table and graph while the other,
\* on the same session, was stopped by its grading and is about to be answered
C25_Witness ==
    /\ Succeeded(1)
    /\ Len(ask[1].path) = 7
    /\ ask[2].pc = "invoke"
    /\ ask[2].node = END
    /\ ask[2].state.decision = "end"
    /\ ask[2].session_id = ask[1].session_id

\* C27: when every call to a collaborator returns or raises in the end, every
\* invocation reaches END or is ended by an exception; it has then run at most
\* seven steps, none of them twice; and while it runs its steps the request
\* is in no call of the store and holds no lock, so its next step can be taken
\* whoever holds the lock.
C27_InvocationsEnd ==
    /\ [](\A c \in Pair :
            /\ Len(ask[c].path) <= 7
            /\ \A i, j \in 1..Len(ask[c].path) :
                  ask[c].path[i] = ask[c].path[j] => i = j
            /\ ask[c].pc = "invoke" =>
                  /\ frame[c] = Idle
                  /\ c \notin lock
                  /\ ENABLED InvocationStep(c))
    /\ \A c \in Pair :
          (ask[c].pc = "invoke") ~> (ask[c].node = END \/ ask[c].pc = "done")

\* one invocation is at END after seven steps while the other request holds
\* the lock of the store inside get_session
C27_Witness ==
    \E c, d \in Pair :
        /\ ask[c].pc = "invoke"
        /\ ask[c].node = END
        /\ Len(ask[c].path) = 7
        /\ lock = {d}
====
